---- MODULE Spec2Model ----
(***************************************************************************)
(* Distance-vector router of src/simple_router.py (class SimpleRouter).    *)
(*                                                                         *)
(* Spec      one router, r1, driven by its event loop run(); the datagrams *)
(*           it receives are drawn from a bounded set of payloads.         *)
(* SyncSpec  sync_os_routes applied twice to routing tables, shadow maps   *)
(*           and identifier-to-prefix maps drawn from bounded sets.        *)
(* NetSpec   four routers in a ring that exchange their advertisements     *)
(*           through the receive queues of their sockets.                  *)
(*                                                                         *)
(* Costs are counted in halves (HalfUnits per unit of cost), so that the   *)
(* congestion term 0.5 * len(neighbors) of the link cost is an integer.    *)
(***************************************************************************)
EXTENDS Integers, Sequences, FiniteSets, TLC

VARIABLES
    routing_table,      \* self.routing_table: destination -> [cost, next_hop]
    table_order,        \* insertion order of the keys of self.routing_table
    last_seen,          \* self.neighbors[n]["last_seen"]
    installed_routes,   \* self.installed_routes: prefix -> next hop address
    hold_down_timers,   \* self.hold_down_timers: destination -> time of poisoning
    network_map,        \* self.network_map: identifier -> prefix (configuration)
    last_update_sent,   \* self.last_update_sent
    now,                \* the value time.time() returns
    pc,                 \* position of run() in its loop
    msg,                \* the datagram recvfrom returned, until the timeout scan
    changed,            \* [message, timeout]: table_changed_by_message / _by_timeout
    sent,               \* the advertisements send_routing_updates built in this tick
    intents,            \* the add_route / delete_route calls of each sync_os_routes of this tick
    poisoned,           \* destinations check_neighbor_timeouts poisoned in this tick
    evictions,          \* destinations whose hold-down entry the message just processed removed
    routers,            \* NetSpec: the SimpleRouter object of each router
    queues,             \* NetSpec: the datagrams waiting in each router's socket
    started,            \* NetSpec: the routers whose process is running
    links               \* NetSpec: the links that carry datagrams

\* the variables of one router, without the clock
single == <<routing_table, table_order, last_seen, installed_routes, hold_down_timers,
            network_map, last_update_sent, pc, msg, changed, sent, intents, poisoned,
            evictions>>

\* the variables of the network
netvars == <<routers, queues, started, links>>

vars == <<single, now, netvars>>

-----------------------------------------------------------------------------
(* Protocol constants                                                      *)

UPDATE_INTERVAL == 10
TIMEOUT_INTERVAL == 30
HOLD_DOWN_INTERVAL == 60

\* 0.5 is the smallest step of a cost: costs are counted in halves
HalfUnits == 2

\* INFINITY = 999, in halves
INFINITY == 999 * HalfUnits

-----------------------------------------------------------------------------
(* Bounds of the model                                                     *)

\* time.time() at start-up (any positive value)
StartTime == 100
\* the clock advances in steps of ClockStep seconds, MaxClockSteps times
ClockStep == 30
MaxClockSteps == 4

-----------------------------------------------------------------------------
(* Configuration of router r1                                              *)

\* config["neighbors"] of each router: four routers in a ring r1 - r2 - r4 - r3 - r1,
\* and two routers a1 - a2 that are each other's only neighbor; every link is
\* configured with the same metrics at both ends
Slow == [latency_ms |-> 10, bandwidth_mbps |-> 100]

Medium == [latency_ms |-> 5, bandwidth_mbps |-> 250]

Fast == [latency_ms |-> 1, bandwidth_mbps |-> 1000]

RouterConfig ==
    [r1 |-> [r2 |-> [ip |-> "10.0.0.2", metrics |-> Slow],
             r3 |-> [ip |-> "10.0.0.3", metrics |-> Medium]],
     r2 |-> [r1 |-> [ip |-> "10.0.0.1", metrics |-> Slow],
             r4 |-> [ip |-> "10.0.0.4", metrics |-> Fast]],
     r3 |-> [r1 |-> [ip |-> "10.0.0.1", metrics |-> Medium],
             r4 |-> [ip |-> "10.0.0.4", metrics |-> Fast]],
     r4 |-> [r2 |-> [ip |-> "10.0.0.2", metrics |-> Fast],
             r3 |-> [ip |-> "10.0.0.3", metrics |-> Fast]],
     a1 |-> [a2 |-> [ip |-> "10.0.9.2", metrics |-> Slow]],
     a2 |-> [a1 |-> [ip |-> "10.0.9.1", metrics |-> Slow]]]

Routers == DOMAIN RouterConfig

\* the routers of the ring
Ring == {"r1", "r2", "r3", "r4"}

\* the two routers that are each other's only neighbor
Pair == {"a1", "a2"}

\* the keys of self.neighbors
Neighbors(self) == DOMAIN RouterConfig[self]

\* the router of the single-router specifications
router_id == "r1"

NeighborIds == Neighbors(router_id)

\* identifiers that appear as destinations of advertisements
Destinations == {"r1", "r2", "r4"}

\* identifiers that appear as sender_id: the neighbors and a stranger
Senders == NeighborIds \cup {"r4"}

Prefixes == {"10.0.1.0/24", "10.0.2.0/24", "10.0.4.0/24"}

\* a dict with no key
EmptyMap == [x \in {} |-> 0]

Put(f, k, v) == [x \in DOMAIN f \cup {k} |-> IF x = k THEN v ELSE f[x]]

Drop(f, k) == [x \in DOMAIN f \ {k} |-> f[x]]

\* dict.get(key) with None for a missing key
None == "None"

Get(f, k) == IF k \in DOMAIN f THEN f[k] ELSE None

\* CalculateCompositeCost without the congestion term
CalculateCompositeCostNoCongestion(self, metrics) ==
    LET latency == IF "latency_ms" \in DOMAIN metrics THEN metrics.latency_ms ELSE 500
        bandwidth == IF "bandwidth_mbps" \in DOMAIN metrics THEN metrics.bandwidth_mbps ELSE 1
    IN  HalfUnits * latency + (HalfUnits * 1000) \div bandwidth

\* _calculate_composite_cost, in halves: latency + 1000 / bandwidth + 0.5 * len(neighbors)
CalculateCompositeCost(self, metrics) ==
    LET latency == IF "latency_ms" \in DOMAIN metrics THEN metrics.latency_ms ELSE 500
        bandwidth == IF "bandwidth_mbps" \in DOMAIN metrics THEN metrics.bandwidth_mbps ELSE 1
    IN  HalfUnits * latency + (HalfUnits * 1000) \div bandwidth + Cardinality(Neighbors(self))

\* self.neighbors[n]["cost"], computed once in __init__
LinkCost(self, n) == CalculateCompositeCost(self, RouterConfig[self][n].metrics)

\* self.neighbors.get(n, {}).get("ip")
NeighborIp(self, n) == IF n \in Neighbors(self) THEN RouterConfig[self][n].ip ELSE None

-----------------------------------------------------------------------------
(* Datagrams                                                               *)

\* advertised costs, in halves: 0, 11.0 and INFINITY
AdvCosts == {0, 22, INFINITY}

\* advertised next hops: this router, or some other router
AdvNextHops == {"r1", "r4"}

\* the sets of destinations an advertisement received carries
AdvDestinationSets == {{}, {"r1"}, {"r2"}, {"r4"}, {"r2", "r4"}}

AdvTables ==
    UNION {[D -> [cost : AdvCosts, next_hop : AdvNextHops]] : D \in AdvDestinationSets}

\* {"type": "update", "sender_id": ..., "table": {...}}
Updates == [kind : {"update"}, sender_id : Senders, table : AdvTables]

\* payloads that are no update message: bytes that are not UTF-8, text that is
\* not JSON, JSON that is no object, an object without sender_id or without table
MalformedKinds == {"bad_utf8", "bad_json", "not_object", "no_sender_id", "no_table"}

Malformed == [kind : MalformedKinds]

NoMsg == [kind |-> "none"]

\* the exception lines 223-225 raise on a payload ("ok" when none)
ParseError(payload) ==
    CASE payload.kind = "bad_utf8"     -> "UnicodeDecodeError"
      [] payload.kind = "bad_json"     -> "JSONDecodeError"
      [] payload.kind = "not_object"   -> "TypeError"
      [] payload.kind = "no_sender_id" -> "KeyError"
      [] payload.kind = "no_table"     -> "KeyError"
      [] OTHER                         -> "ok"

\* except (json.JSONDecodeError, KeyError)
CaughtErrors == {"JSONDecodeError", "KeyError"}

-----------------------------------------------------------------------------
(* send_routing_updates                                                    *)

\* AdvertisedRoute without the poisoned reverse
AdvertisedRouteNoPoison(self, dest, route_info, neighbor_id) == route_info

\* the entry of table_for_neighbor for one destination
AdvertisedRoute(self, dest, route_info, neighbor_id) ==
    IF dest # self /\ route_info.next_hop = neighbor_id
    THEN [cost |-> INFINITY, next_hop |-> route_info.next_hop]
    ELSE route_info

TableForNeighbor(self, rt, neighbor_id) ==
    [dest \in DOMAIN rt |-> AdvertisedRoute(self, dest, rt[dest], neighbor_id)]

-----------------------------------------------------------------------------
(* process_incoming_message                                                *)

\* HoldDownRunning that still runs at the deadline itself
HoldDownRunningAtDeadline(timers, destination, t) ==
    t - timers[destination] <= HOLD_DOWN_INTERVAL

\* HoldDownRunning measured against the wrong interval
HoldDownRunningShort(timers, destination, t) ==
    t - timers[destination] < TIMEOUT_INTERVAL

\* line 243: the hold-down of a destination is still running at time t
HoldDownRunning(timers, destination, t) ==
    t - timers[destination] < HOLD_DOWN_INTERVAL

\* line 254
NewCost(cost_to_neighbor, advertised_cost) == cost_to_neighbor + advertised_cost

\* TrustedChange that reports every trusted update as a change
TrustedChangeAlways(current_cost, new_cost) == TRUE

\* line 267: the trusted update changes the stored cost
TrustedChange(current_cost, new_cost) == current_cost # new_cost

\* CompetingBetter that lets a tie switch the next hop
CompetingBetterOrEqual(new_cost, current_cost) == new_cost <= current_cost

\* CompetingBetter with the comparison turned round
CompetingBetterInverted(new_cost, current_cost) == new_cost > current_cost

\* line 273: the competing update is adopted
CompetingBetter(new_cost, current_cost) == new_cost < current_cost

\* UpdateRoute that believes the current next hop only when it offers less
UpdateRouteGoodNewsOnly(st, sender_id, destination, new_cost) ==
    IF destination \notin DOMAIN st.rt
    THEN IF new_cost < INFINITY
         THEN [st EXCEPT !.rt = Put(st.rt, destination,
                                    [cost |-> new_cost, next_hop |-> sender_id]),
                         !.order = Append(st.order, destination),
                         !.changed = TRUE]
         ELSE st
    ELSE IF CompetingBetter(new_cost, st.rt[destination].cost)
    THEN [st EXCEPT !.rt[destination] = [cost |-> new_cost, next_hop |-> sender_id],
                    !.changed = TRUE]
    ELSE st

\* lines 255-275: the three cases, on state st = [rt, order, hold, changed]
UpdateRoute(st, sender_id, destination, new_cost) ==
    IF destination \notin DOMAIN st.rt
    THEN IF new_cost < INFINITY
         THEN [st EXCEPT !.rt = Put(st.rt, destination,
                                    [cost |-> new_cost, next_hop |-> sender_id]),
                         !.order = Append(st.order, destination),
                         !.changed = TRUE]
         ELSE st
    ELSE IF st.rt[destination].next_hop = sender_id
    THEN IF TrustedChange(st.rt[destination].cost, new_cost)
         THEN [st EXCEPT !.rt[destination].cost = new_cost, !.changed = TRUE]
         ELSE st
    ELSE IF CompetingBetter(new_cost, st.rt[destination].cost)
    THEN [st EXCEPT !.rt[destination] = [cost |-> new_cost, next_hop |-> sender_id],
                    !.changed = TRUE]
    ELSE st

\* ProcessEntry that leaves an expired hold-down entry in the registry
ProcessEntryKeepsExpired(self, st, sender_id, destination, info, t) ==
    IF destination \in DOMAIN st.hold /\ HoldDownRunning(st.hold, destination, t)
    THEN st
    ELSE IF info.next_hop = self
    THEN st
    ELSE UpdateRoute(st, sender_id, destination,
                     NewCost(LinkCost(self, sender_id), info.cost))

\* ProcessEntry that records the advertised next hop instead of the sender
ProcessEntryAdvertisedHop(self, st, sender_id, destination, info, t) ==
    IF destination \in DOMAIN st.hold /\ HoldDownRunning(st.hold, destination, t)
    THEN st
    ELSE LET evicted == [st EXCEPT !.hold = Drop(st.hold, destination)]
         IN  IF info.next_hop = self
             THEN evicted
             ELSE UpdateRoute(evicted, info.next_hop, destination,
                              NewCost(LinkCost(self, sender_id), info.cost))

\* lines 242-275: one iteration of the loop over neighbor_table.items()
ProcessEntry(self, st, sender_id, destination, info, t) ==
    IF destination \in DOMAIN st.hold /\ HoldDownRunning(st.hold, destination, t)
    THEN st
    ELSE LET evicted == [st EXCEPT !.hold = Drop(st.hold, destination)]
         IN  IF info.next_hop = self
             THEN evicted
             ELSE UpdateRoute(evicted, sender_id, destination,
                              NewCost(LinkCost(self, sender_id), info.cost))

\* the loop over neighbor_table.items(); the entries of a JSON object have distinct
\* keys and each iteration reads and writes its own destination only
RECURSIVE ProcessEntries(_, _, _, _, _, _)
ProcessEntries(self, st, sender_id, table, todo, t) ==
    IF todo = {}
    THEN st
    ELSE LET destination == CHOOSE d \in todo : TRUE
         IN  ProcessEntries(self,
                            ProcessEntry(self, st, sender_id, destination,
                                         table[destination], t),
                            sender_id, table, todo \ {destination}, t)

\* ProcessUpdate that looks at the hold-down registry before it looks at the
\* sender: an unknown sender's entries evict the expired hold-downs
ProcessUpdateLateSenderTest(self, rt, order, hold, ls, message, t) ==
    IF message.sender_id \notin Neighbors(self)
    THEN [rt |-> rt, order |-> order,
          hold |-> [d \in {x \in DOMAIN hold : x \notin DOMAIN message.table
                                                \/ HoldDownRunning(hold, x, t)} |-> hold[d]],
          changed |-> FALSE, last_seen |-> ls]
    ELSE LET st == ProcessEntries(self, [rt |-> rt, order |-> order, hold |-> hold, changed |-> FALSE],
                                  message.sender_id, message.table,
                                  DOMAIN message.table, t)
         IN  [rt |-> st.rt, order |-> st.order, hold |-> st.hold, changed |-> st.changed,
              last_seen |-> [ls EXCEPT ![message.sender_id] = t]]

\* lines 229-277, for a payload that parsed: [rt, order, hold, changed, last_seen]
ProcessUpdate(self, rt, order, hold, ls, message, t) ==
    IF message.sender_id \notin Neighbors(self)
    THEN [rt |-> rt, order |-> order, hold |-> hold, changed |-> FALSE, last_seen |-> ls]
    ELSE LET st == ProcessEntries(self, [rt |-> rt, order |-> order, hold |-> hold, changed |-> FALSE],
                                  message.sender_id, message.table,
                                  DOMAIN message.table, t)
         IN  [rt |-> st.rt, order |-> st.order, hold |-> st.hold, changed |-> st.changed,
              last_seen |-> [ls EXCEPT ![message.sender_id] = t]]

-----------------------------------------------------------------------------
(* check_neighbor_timeouts                                                 *)

\* line 289
NeighborTimedOut(seen, t) == seen > 0 /\ t - seen > TIMEOUT_INTERVAL

TimedOutNeighbors(self, ls, t) == {n \in Neighbors(self) : NeighborTimedOut(ls[n], t)}

\* RoutesToPoison that takes the route to the silent neighbor itself only
RoutesToPoisonDirect(rt, dead) ==
    {dest \in DOMAIN rt : dest \in dead /\ rt[dest].next_hop \in dead
                                        /\ rt[dest].cost < INFINITY}

\* RoutesToPoison that takes the routes that are at INFINITY already as well
RoutesToPoisonAgain(rt, dead) ==
    {dest \in DOMAIN rt : rt[dest].next_hop \in dead}

\* line 293: the routes a timeout of the neighbors in `dead` poisons
RoutesToPoison(rt, dead) ==
    {dest \in DOMAIN rt : rt[dest].next_hop \in dead /\ rt[dest].cost < INFINITY}

\* the time a hold-down entry created at time t records
HoldDownStart(t) == t

\* CheckNeighborTimeouts that starts the hold-down and leaves the cost as it was
CheckNeighborTimeoutsHoldOnly(self, rt, hold, ls, t) ==
    LET dead == TimedOutNeighbors(self, ls, t)
        hit == RoutesToPoison(rt, dead)
    IN  [rt |-> rt,
         hold |-> [dest \in DOMAIN hold \cup hit |->
                    IF dest \in hit THEN HoldDownStart(t) ELSE hold[dest]],
         last_seen |-> [n \in Neighbors(self) |-> IF n \in dead THEN 0 ELSE ls[n]],
         poisoned |-> hit,
         changed |-> hit # {}]

\* CheckNeighborTimeouts that does not report the table as changed
CheckNeighborTimeoutsUnreported(self, rt, hold, ls, t) ==
    LET dead == TimedOutNeighbors(self, ls, t)
        hit == RoutesToPoison(rt, dead)
    IN  [rt |-> [dest \in DOMAIN rt |->
                    IF dest \in hit THEN [rt[dest] EXCEPT !.cost = INFINITY] ELSE rt[dest]],
         hold |-> [dest \in DOMAIN hold \cup hit |->
                    IF dest \in hit THEN HoldDownStart(t) ELSE hold[dest]],
         last_seen |-> [n \in Neighbors(self) |-> IF n \in dead THEN 0 ELSE ls[n]],
         poisoned |-> hit,
         changed |-> FALSE]

\* lines 279-301: [rt, hold, last_seen, poisoned, changed]
CheckNeighborTimeouts(self, rt, hold, ls, t) ==
    LET dead == TimedOutNeighbors(self, ls, t)
        hit == RoutesToPoison(rt, dead)
    IN  [rt |-> [dest \in DOMAIN rt |->
                    IF dest \in hit THEN [rt[dest] EXCEPT !.cost = INFINITY] ELSE rt[dest]],
         hold |-> [dest \in DOMAIN hold \cup hit |->
                    IF dest \in hit THEN HoldDownStart(t) ELSE hold[dest]],
         last_seen |-> [n \in Neighbors(self) |-> IF n \in dead THEN 0 ELSE ls[n]],
         poisoned |-> hit,
         changed |-> hit # {}]

-----------------------------------------------------------------------------
(* sync_os_routes                                                          *)

\* delete_route(prefix) and add_route(prefix, next_hop_ip), as the calls made
DeleteIntent(prefix) == [op |-> "del", prefix |-> prefix, via |-> None]

ReplaceIntent(prefix, ip) == [op |-> "replace", prefix |-> prefix, via |-> ip]

\* NeedsInstall that looks at the presence of the prefix only
NeedsInstallIfAbsent(installed, prefix, ip) == prefix \notin DOMAIN installed

\* NeedsInstall that installs every time
NeedsInstallAlways(installed, prefix, ip) == TRUE

\* line 344: the shadow map does not hold this address for the prefix
NeedsInstall(installed, prefix, ip) == Get(installed, prefix) # ip

\* lines 330-346: one iteration of the first loop, on acc = [installed, intents]
SyncRoute(self, acc, dest_id, route_info, nmap) ==
    LET destination_prefix == Get(nmap, dest_id)
        next_hop_ip == NeighborIp(self, route_info.next_hop)
    IN  IF dest_id = self \/ destination_prefix = None
        THEN acc
        ELSE IF route_info.cost >= INFINITY
        THEN IF destination_prefix \in DOMAIN acc.installed
             THEN [installed |-> Drop(acc.installed, destination_prefix),
                   intents |-> acc.intents \cup {DeleteIntent(destination_prefix)}]
             ELSE acc
        ELSE IF next_hop_ip = None
        THEN acc
        ELSE IF NeedsInstall(acc.installed, destination_prefix, next_hop_ip)
        THEN [installed |-> Put(acc.installed, destination_prefix, next_hop_ip),
              intents |-> acc.intents \cup {ReplaceIntent(destination_prefix, next_hop_ip)}]
        ELSE acc

\* lines 329-346: the loop over self.routing_table.items(), in insertion order
RECURSIVE SyncRoutes(_, _, _, _, _, _)
SyncRoutes(self, acc, rt, order, i, nmap) ==
    IF i > Len(order)
    THEN acc
    ELSE SyncRoutes(self, SyncRoute(self, acc, order[i], rt[order[i]], nmap),
                    rt, order, i + 1, nmap)

\* line 349
CurrentValidPrefixes(rt, nmap) ==
    {Get(nmap, dest_id) : dest_id \in {d \in DOMAIN rt : rt[d].cost < INFINITY}}

\* lines 349-353: the final clean-up
CleanUp(acc, rt, nmap) ==
    LET stale == DOMAIN acc.installed \ CurrentValidPrefixes(rt, nmap)
    IN  [installed |-> [p \in DOMAIN acc.installed \ stale |-> acc.installed[p]],
         intents |-> acc.intents \cup {DeleteIntent(p) : p \in stale}]

\* sync_os_routes: the new shadow map and the intents emitted
SyncOsRoutes(self, rt, order, installed, nmap) ==
    CleanUp(SyncRoutes(self, [installed |-> installed, intents |-> {}], rt, order, 1, nmap),
            rt, nmap)

\* the single-router specifications have no network
NoNetwork ==
    /\ routers = EmptyMap
    /\ queues = EmptyMap
    /\ started = {}
    /\ links = {}

-----------------------------------------------------------------------------
(* The event loop run() of router r1                                       *)

\* config["network_map"]: one prefix per router
ConfigMap == [r1 |-> "10.0.1.0/24", r2 |-> "10.0.2.0/24", r3 |-> "10.0.3.0/24",
              r4 |-> "10.0.4.0/24"]

NoChange == [message |-> FALSE, timeout |-> FALSE]

\* __init__
Init ==
    /\ routing_table = [d \in {router_id} |-> [cost |-> 0, next_hop |-> router_id]]
    /\ table_order = <<router_id>>
    /\ last_seen = [n \in NeighborIds |-> 0]
    /\ installed_routes = EmptyMap
    /\ hold_down_timers = EmptyMap
    /\ network_map = ConfigMap
    /\ last_update_sent = 0
    /\ now = StartTime
    /\ pc = "start"
    /\ msg = NoMsg
    /\ changed = NoChange
    /\ sent = EmptyMap
    /\ intents = <<>>
    /\ poisoned = {}
    /\ evictions = {}
    /\ NoNetwork

\* lines 359-360: the reconciliation before the loop
RunStart ==
    /\ pc = "start"
    /\ LET r == SyncOsRoutes(router_id, routing_table, table_order, installed_routes,
                            network_map)
       IN  /\ installed_routes' = r.installed
           /\ intents' = Append(intents, r.intents)
    /\ pc' = "send"
    /\ UNCHANGED netvars
    /\ UNCHANGED <<routing_table, table_order, last_seen, hold_down_timers, network_map,
                   last_update_sent, now, msg, changed, sent, poisoned, evictions>>

\* line 366
UpdateDue(t, last_sent) == t - last_sent > UPDATE_INTERVAL

\* lines 366-367: send_routing_updates when the update timer has elapsed
SendRoutingUpdates ==
    /\ pc = "send"
    /\ UpdateDue(now, last_update_sent)
    /\ sent' = [n \in NeighborIds |-> TableForNeighbor(router_id, routing_table, n)]
    /\ last_update_sent' = now
    /\ pc' = "recv"
    /\ UNCHANGED netvars
    /\ UNCHANGED <<routing_table, table_order, last_seen, installed_routes,
                   hold_down_timers, network_map, now, msg, changed, intents, poisoned, evictions>>

\* line 366, the timer has not elapsed
SkipSend ==
    /\ pc = "send"
    /\ ~UpdateDue(now, last_update_sent)
    /\ pc' = "recv"
    /\ UNCHANGED netvars
    /\ UNCHANGED <<routing_table, table_order, last_seen, installed_routes, hold_down_timers,
                   network_map, last_update_sent, now, msg, changed, sent, intents, poisoned, evictions>>

\* lines 374-377: recvfrom times out, or the connection was reset
RecvNothing ==
    /\ pc = "recv"
    /\ msg' = NoMsg
    /\ changed' = NoChange
    /\ sent' = EmptyMap
    /\ pc' = "timeouts"
    /\ UNCHANGED netvars
    /\ UNCHANGED <<routing_table, table_order, last_seen, installed_routes,
                   hold_down_timers, network_map, last_update_sent, now, intents, poisoned, evictions>>

\* lines 372-373 and 222-228: a payload that does not parse; the exceptions that
\* line 226 does not catch leave run()
RecvMalformed(payload) ==
    /\ pc = "recv"
    /\ ParseError(payload) # "ok"
    /\ msg' = payload
    /\ changed' = NoChange
    /\ sent' = EmptyMap
    /\ pc' = IF ParseError(payload) \in CaughtErrors THEN "timeouts" ELSE "crashed"
    /\ UNCHANGED netvars
    /\ UNCHANGED <<routing_table, table_order, last_seen, installed_routes,
                   hold_down_timers, network_map, last_update_sent, now, intents, poisoned, evictions>>

\* lines 372-373 and 229-277: an update message
RecvUpdate(payload) ==
    /\ pc = "recv"
    /\ ParseError(payload) = "ok"
    /\ LET r == ProcessUpdate(router_id, routing_table, table_order, hold_down_timers,
                              last_seen, payload, now)
       IN  /\ routing_table' = r.rt
           /\ table_order' = r.order
           /\ hold_down_timers' = r.hold
           /\ last_seen' = r.last_seen
           /\ changed' = [message |-> r.changed, timeout |-> FALSE]
           /\ evictions' = DOMAIN hold_down_timers \ DOMAIN r.hold
    /\ msg' = payload
    /\ sent' = EmptyMap
    /\ pc' = "timeouts"
    /\ UNCHANGED netvars
    /\ UNCHANGED <<installed_routes, network_map, last_update_sent, now, intents, poisoned>>

\* line 380
TimeoutScan ==
    /\ pc = "timeouts"
    /\ LET r == CheckNeighborTimeouts(router_id, routing_table, hold_down_timers,
                                      last_seen, now)
       IN  /\ routing_table' = r.rt
           /\ hold_down_timers' = r.hold
           /\ last_seen' = r.last_seen
           /\ poisoned' = r.poisoned
           /\ changed' = [changed EXCEPT !.timeout = r.changed]
           /\ pc' = IF changed.message \/ r.changed THEN "sync" ELSE "sleep"
    /\ msg' = NoMsg
    /\ evictions' = {}
    /\ UNCHANGED netvars
    /\ UNCHANGED <<table_order, installed_routes, network_map, last_update_sent, now,
                   sent, intents>>

\* lines 383-385
Reconcile ==
    /\ pc = "sync"
    /\ LET r == SyncOsRoutes(router_id, routing_table, table_order, installed_routes,
                            network_map)
       IN  /\ installed_routes' = r.installed
           /\ intents' = Append(intents, r.intents)
    /\ pc' = "sleep"
    /\ UNCHANGED netvars
    /\ UNCHANGED <<routing_table, table_order, last_seen, hold_down_timers, network_map,
                   last_update_sent, now, msg, changed, sent, poisoned, evictions>>

\* line 388 and the wait in recvfrom: the tick ends and time passes, by less than
\* a clock step or by one
Sleep(step) ==
    /\ pc = "sleep"
    /\ now + step <= StartTime + MaxClockSteps * ClockStep
    /\ now' = now + step
    /\ msg' = NoMsg
    /\ changed' = NoChange
    /\ intents' = <<>>
    /\ poisoned' = {}
    /\ pc' = "send"
    /\ UNCHANGED netvars
    /\ UNCHANGED <<routing_table, table_order, last_seen, installed_routes,
                   hold_down_timers, network_map, last_update_sent, sent, evictions>>

Next ==
    \/ RunStart
    \/ SendRoutingUpdates
    \/ SkipSend
    \/ RecvNothing
    \/ \E payload \in Malformed : RecvMalformed(payload)
    \/ \E payload \in Updates : RecvUpdate(payload)
    \/ TimeoutScan
    \/ Reconcile
    \/ \E step \in {0, ClockStep} : Sleep(step)

Spec == Init /\ [][Next]_vars

-----------------------------------------------------------------------------
(* sync_os_routes run twice on arbitrary tables                             *)

\* routes of the tables drawn: finite or poisoned, through a neighbor or through
\* a router that is no neighbor
SyncRoutesDrawn == [cost : {20, INFINITY}, next_hop : NeighborIds \cup {"r4"}]

SyncDestinations == {"r2", "r4"}

\* the orders in which a set of destinations can have been inserted
Orders(S) == {o \in UNION {[1..n -> S] : n \in {Cardinality(S)}} :
                 \A i, j \in DOMAIN o : i # j => o[i] # o[j]}

SyncIps == {NeighborIp(router_id, n) : n \in NeighborIds}

Maps(K, V) == UNION {[D -> V] : D \in SUBSET K}

SyncInit ==
    /\ \E D \in SUBSET SyncDestinations :
         \E routes \in [D -> SyncRoutesDrawn], o \in Orders(D) :
           /\ routing_table = [d \in D \cup {router_id} |->
                                 IF d = router_id
                                 THEN [cost |-> 0, next_hop |-> router_id]
                                 ELSE routes[d]]
           /\ table_order = <<router_id>> \o o
    /\ installed_routes \in Maps(Prefixes, SyncIps)
    /\ network_map \in Maps(SyncDestinations \cup {router_id}, Prefixes)
    /\ last_seen = [n \in NeighborIds |-> 0]
    /\ hold_down_timers = EmptyMap
    /\ last_update_sent = 0
    /\ now = StartTime
    /\ pc = "sync1"
    /\ msg = NoMsg
    /\ changed = NoChange
    /\ sent = EmptyMap
    /\ intents = <<>>
    /\ poisoned = {}
    /\ evictions = {}
    /\ NoNetwork

\* one call of sync_os_routes
SyncPass(from, to) ==
    /\ pc = from
    /\ LET r == SyncOsRoutes(router_id, routing_table, table_order, installed_routes,
                            network_map)
       IN  /\ installed_routes' = r.installed
           /\ intents' = Append(intents, r.intents)
    /\ pc' = to
    /\ UNCHANGED netvars
    /\ UNCHANGED <<routing_table, table_order, last_seen, hold_down_timers, network_map,
                   last_update_sent, now, msg, changed, sent, poisoned, evictions>>

SyncFirst == SyncPass("sync1", "sync2")

SyncSecond == SyncPass("sync2", "synced")

SyncNext == SyncFirst \/ SyncSecond

SyncSpec == SyncInit /\ [][SyncNext]_vars

\* no two destinations of the routing table share a prefix
PrefixesDistinct ==
    \A d, e \in DOMAIN routing_table :
        (d # e /\ Get(network_map, d) # None) => Get(network_map, d) # Get(network_map, e)

\* C5 as stated: for every routing table, shadow map and identifier-to-prefix
\* map, the second of two consecutive runs of sync_os_routes emits no intent and
\* leaves the shadow map as the first run left it.
C5_SecondRunSilent ==
    [][pc = "sync2" => (intents'[2] = {} /\ installed_routes' = installed_routes)]_vars

\* C5, amended: the same, for the identifier-to-prefix maps that give the
\* destinations of the routing table distinct prefixes.
C5_SecondRunSilentDistinct ==
    [][(pc = "sync2" /\ PrefixesDistinct) =>
           (intents'[2] = {} /\ installed_routes' = installed_routes)]_vars

\* both runs are done, the prefixes are distinct, and the first run emitted an
\* install and a remove
C5_Witness ==
    /\ pc = "synced"
    /\ PrefixesDistinct
    /\ \E i, j \in intents[1] : i.op = "replace" /\ j.op = "del"
    /\ intents[2] = {}

-----------------------------------------------------------------------------
(* Properties of the single router                                         *)

UpdateProcessed ==
    pc = "timeouts" /\ msg.kind = "update" /\ msg.sender_id \in NeighborIds

\* C1: the routing table holds exactly one route whose next_hop is the router's
\* own identifier; it is the route keyed by that identifier and its cost is 0,
\* whatever updates, timeouts and reconciliations have happened.
C1_SelfRoute ==
    /\ router_id \in DOMAIN routing_table
    /\ routing_table[router_id] = [cost |-> 0, next_hop |-> router_id]
    /\ \A d \in DOMAIN routing_table :
           routing_table[d].next_hop = router_id => d = router_id

\* an update from a neighbor that advertises this router itself, not as learned
\* from this router, has been processed, and another route exists
C1_Witness ==
    /\ UpdateProcessed
    /\ router_id \in DOMAIN msg.table
    /\ msg.table[router_id].next_hop # router_id
    /\ msg.table[router_id].cost = 0
    /\ Cardinality(DOMAIN routing_table) > 1
    /\ routing_table[router_id].cost = 0

\* C2: the advertisement built for neighbor N holds every destination of the
\* routing table; a destination other than this router whose next hop is N is
\* advertised with cost INFINITY and its next hop, every other one verbatim.
C2_SplitHorizon ==
    (pc = "recv" /\ sent # EmptyMap) =>
        \A n \in NeighborIds :
            /\ DOMAIN sent[n] = DOMAIN routing_table
            /\ \A d \in DOMAIN routing_table :
                   IF d # router_id /\ routing_table[d].next_hop = n
                   THEN sent[n][d] = [cost |-> INFINITY, next_hop |-> n]
                   ELSE sent[n][d] = routing_table[d]

\* an advertisement was built while a finite route goes through its receiver and
\* a poisoned route goes through the other neighbor
C2_Witness ==
    /\ pc = "recv"
    /\ sent # EmptyMap
    /\ \E n \in NeighborIds, d \in DOMAIN routing_table \ {router_id} :
           /\ routing_table[d].next_hop = n
           /\ routing_table[d].cost < INFINITY
           /\ sent[n][d].cost = INFINITY
           /\ \E e \in DOMAIN routing_table \ {router_id, d} :
                  /\ routing_table[e].next_hop # n
                  /\ routing_table[e].cost >= INFINITY
                  /\ sent[n][e] = routing_table[e]

\* C3: a destination that check_neighbor_timeouts poisons at time t gets a
\* hold-down entry for t, and as long as the clock is below t + HOLD_DOWN_INTERVAL
\* no step removes the entry or brings the destination's cost below INFINITY.
C3_HoldDown ==
    [][/\ \A d \in poisoned' :
              /\ d \in DOMAIN hold_down_timers'
              /\ hold_down_timers'[d] = now'
              /\ routing_table'[d].cost >= INFINITY
       /\ \A d \in DOMAIN hold_down_timers :
              now' - hold_down_timers[d] < HOLD_DOWN_INTERVAL =>
                  /\ d \in DOMAIN hold_down_timers'
                  /\ hold_down_timers'[d] = hold_down_timers[d]
                  /\ routing_table'[d].cost >= INFINITY]_vars

\* inside the window of a poisoned destination, at a later clock value, an update
\* that offers it at a finite cost has been processed
C3_Witness ==
    /\ UpdateProcessed
    /\ \E d \in DOMAIN msg.table \cap DOMAIN hold_down_timers :
           /\ now > hold_down_timers[d]
           /\ now - hold_down_timers[d] < HOLD_DOWN_INTERVAL
           /\ msg.table[d].next_hop # router_id
           /\ LinkCost(router_id, msg.sender_id) + msg.table[d].cost < INFINITY
           /\ routing_table[d].cost >= INFINITY

\* C6: processing the update just processed a second time, at the same clock
\* value, leaves the routing table and the hold-down registry as they are and
\* reports the table as unchanged.
C6_UpdateIdempotent ==
    UpdateProcessed =>
        LET again == ProcessUpdate(router_id, routing_table, table_order,
                                   hold_down_timers, last_seen, msg, now)
        IN  /\ again.rt = routing_table
            /\ again.order = table_order
            /\ again.hold = hold_down_timers
            /\ ~again.changed

\* an update has been processed that changed the table through its sender being
\* the route's next hop
C6_Witness ==
    /\ UpdateProcessed
    /\ changed.message
    /\ \E d \in DOMAIN msg.table :
           /\ d \in DOMAIN routing_table
           /\ routing_table[d].next_hop = msg.sender_id
           /\ routing_table[d].cost >= INFINITY

\* C7: every route whose cost is below INFINITY has a next hop that is this
\* router or a configured neighbor.
C7_NextHopKnown ==
    \A d \in DOMAIN routing_table :
        routing_table[d].cost < INFINITY =>
            routing_table[d].next_hop \in NeighborIds \cup {router_id}

\* a finite route through a neighbor exists after an update that named a router
\* outside the neighbor table as next hop
C7_Witness ==
    /\ UpdateProcessed
    /\ \E d \in DOMAIN msg.table :
           /\ msg.table[d].next_hop \notin NeighborIds \cup {router_id}
           /\ d \in DOMAIN routing_table
           /\ routing_table[d].cost < INFINITY
           /\ routing_table[d].next_hop = msg.sender_id

\* every entry of the shadow map belongs to a finite route to a destination of
\* that prefix whose next hop is a neighbor with the recorded address
ShadowConsistent ==
    \A p \in DOMAIN installed_routes :
        \E d \in DOMAIN routing_table :
            /\ routing_table[d].cost < INFINITY
            /\ Get(network_map, d) = p
            /\ routing_table[d].next_hop \in NeighborIds
            /\ NeighborIp(router_id, routing_table[d].next_hop) = installed_routes[p]

\* C8: after every reconciliation pass, until the next message is processed, the
\* shadow map is consistent with the routing table; the pass of a tick in which
\* a timeout poisoned routes emits a remove intent for the installed prefix of
\* each poisoned destination.
C8_ShadowMap ==
    [][/\ pc' \in {"send", "recv", "sleep"} => ShadowConsistent'
       /\ pc = "sync" =>
              \A d \in poisoned :
                  Get(network_map, d) \in DOMAIN installed_routes =>
                      DeleteIntent(Get(network_map, d)) \in intents'[Len(intents')]]_vars

\* a tick ends in which a timeout poisoned an installed route and removed it,
\* while another route stays installed
C8_Witness ==
    /\ pc = "sleep"
    /\ installed_routes # EmptyMap
    /\ \E d \in poisoned :
           /\ DeleteIntent(Get(network_map, d)) \in intents[Len(intents)]
           /\ Get(network_map, d) \notin DOMAIN installed_routes

\* C9: every cost stored in the routing table lies between 0 and INFINITY.
C9_CostsSaturated ==
    \A d \in DOMAIN routing_table :
        /\ routing_table[d].cost >= 0
        /\ routing_table[d].cost <= INFINITY

\* C10: a malformed datagram leaves the routing table, the hold-down registry,
\* the shadow map and every last_seen unchanged, reports no table change, and
\* the loop goes on to the timeout scan of the tick.
C10_MalformedDiscarded ==
    [][(pc = "recv" /\ msg'.kind \in MalformedKinds) =>
           /\ routing_table' = routing_table
           /\ hold_down_timers' = hold_down_timers
           /\ installed_routes' = installed_routes
           /\ last_seen' = last_seen
           /\ ~changed'.message
           /\ pc' = "timeouts"]_vars

\* C12: a well-formed update whose sender_id is not a key of the neighbor table
\* is dropped as a whole: the routing table, the hold-down registry with its
\* expired entries, the shadow map and every last_seen are unchanged and the
\* table is reported as not changed.
C12_UnknownSenderDropped ==
    [][(pc = "recv" /\ msg'.kind = "update" /\ msg'.sender_id \notin NeighborIds) =>
           /\ routing_table' = routing_table
           /\ table_order' = table_order
           /\ hold_down_timers' = hold_down_timers
           /\ installed_routes' = installed_routes
           /\ last_seen' = last_seen
           /\ ~changed'.message]_vars

\* an update of an unknown sender has been processed that offers, at cost 0, a
\* destination whose hold-down entry has expired, and one the table does not hold
C12_Witness ==
    /\ pc = "timeouts"
    /\ msg.kind = "update"
    /\ msg.sender_id \notin NeighborIds
    /\ \E d \in DOMAIN msg.table \cap DOMAIN hold_down_timers :
           /\ ~HoldDownRunning(hold_down_timers, d, now)
           /\ msg.table[d].cost = 0
           /\ msg.table[d].next_hop # router_id
    /\ \E d \in DOMAIN msg.table : d \notin DOMAIN routing_table

\* C13: when an update of sender S is processed, a route whose next hop is not
\* S is replaced only by {link_cost(S) + advertised cost, S} and only if that
\* cost is strictly below the route's cost; otherwise the route is unchanged.
\* So no update raises the cost of a route its sender is not the next hop of.
C13_BadNewsTrustedOnly ==
    [][(pc = "recv" /\ msg'.kind = "update") =>
           \A d \in DOMAIN routing_table :
               routing_table[d].next_hop # msg'.sender_id =>
                   /\ d \in DOMAIN routing_table'
                   /\ routing_table'[d].cost <= routing_table[d].cost
                   /\ routing_table'[d] # routing_table[d] =>
                          /\ msg'.sender_id \in NeighborIds
                          /\ d \in DOMAIN msg'.table
                          /\ LinkCost(router_id, msg'.sender_id) + msg'.table[d].cost
                                 < routing_table[d].cost
                          /\ routing_table'[d] =
                                 [cost |-> LinkCost(router_id, msg'.sender_id)
                                              + msg'.table[d].cost,
                                  next_hop |-> msg'.sender_id]]_vars

\* an update has been processed in which a neighbor offers, outside any
\* hold-down, one destination at exactly the cost of the route through another
\* next hop, and the route is still the other one
C13_Witness ==
    /\ UpdateProcessed
    /\ \E d \in DOMAIN msg.table \cap DOMAIN routing_table :
           /\ d \notin DOMAIN hold_down_timers
           /\ msg.table[d].next_hop # router_id
           /\ routing_table[d].next_hop \in NeighborIds \ {msg.sender_id}
           /\ routing_table[d].cost < INFINITY
           /\ LinkCost(router_id, msg.sender_id) + msg.table[d].cost
                  = routing_table[d].cost

\* the entry of the update being processed for destination d falls under the
\* trusted rule: d is not under a running hold-down, the advertised next hop is
\* not this router and the route to d goes through the sender
TrustedEntry(d) ==
    /\ msg'.sender_id \in NeighborIds
    /\ d \in DOMAIN msg'.table \cap DOMAIN routing_table
    /\ ~(d \in DOMAIN hold_down_timers /\ HoldDownRunning(hold_down_timers, d, now))
    /\ msg'.table[d].next_hop # router_id
    /\ routing_table[d].next_hop = msg'.sender_id

\* the route the trusted rule leaves for destination d
TrustedRoute(d) ==
    routing_table'[d] = [cost |-> LinkCost(router_id, msg'.sender_id) + msg'.table[d].cost,
                         next_hop |-> msg'.sender_id]

\* C14: an entry under the trusted rule leaves the route with cost
\* link_cost(S) + advertised cost and next hop S, whether lower, equal, higher
\* or infinite, and the table is flagged changed exactly when that cost differs
\* from the previous one.
C14_TrustedUpdate ==
    [][(pc = "recv" /\ msg'.kind = "update") =>
           \A d \in DOMAIN routing_table :
               TrustedEntry(d) =>
                   /\ TrustedRoute(d)
                   /\ changed'.message <=> routing_table'[d].cost # routing_table[d].cost]_vars

\* C14, with the flag as the code sets it, once for the whole update: it is set
\* when the cost of the trusted entry differs from the previous one, and it is
\* set exactly when some route of the table differs from the previous one.
C14_TrustedUpdateWholeTable ==
    [][(pc = "recv" /\ msg'.kind = "update") =>
           \A d \in DOMAIN routing_table :
               TrustedEntry(d) =>
                   /\ TrustedRoute(d)
                   /\ routing_table'[d].cost # routing_table[d].cost => changed'.message
                   /\ changed'.message <=> routing_table' # routing_table]_vars

\* the neighbor with the most expensive link has advertised a destination at
\* INFINITY and the table changed: the route holds the sum, above every cost a
\* competing update is adopted at, so the sender was its next hop before
C14_Witness ==
    /\ UpdateProcessed
    /\ changed.message
    /\ \A n \in NeighborIds :
           LinkCost(router_id, n) <= LinkCost(router_id, msg.sender_id)
    /\ \E d \in DOMAIN msg.table \cap DOMAIN routing_table :
           /\ msg.table[d].cost = INFINITY
           /\ msg.table[d].next_hop # router_id
           /\ routing_table[d] = [cost |-> LinkCost(router_id, msg.sender_id) + INFINITY,
                                  next_hop |-> msg.sender_id]

\* the neighbors heard before whose last message is older than TIMEOUT_INTERVAL
Silent == {n \in NeighborIds : last_seen[n] > 0 /\ now - last_seen[n] > TIMEOUT_INTERVAL}

\* the routes below INFINITY through a silent neighbor
ThroughSilent ==
    {d \in DOMAIN routing_table :
        routing_table[d].next_hop \in Silent /\ routing_table[d].cost < INFINITY}

\* C15: check_neighbor_timeouts at time now sets exactly the routes below
\* INFINITY whose next hop N has last_seen(N) > 0 and now - last_seen(N) >
\* TIMEOUT_INTERVAL to cost INFINITY with the same next hop and gives them a
\* hold-down entry whose window ends at now + HOLD_DOWN_INTERVAL; every other
\* route and hold-down entry is unchanged; last_seen(N) becomes 0 and a neighbor
\* with last_seen = 0 does not fire.
C15_TimeoutPoisoning ==
    [][pc = "timeouts" =>
           /\ DOMAIN routing_table' = DOMAIN routing_table
           /\ \A d \in DOMAIN routing_table :
                  IF d \in ThroughSilent
                  THEN /\ routing_table'[d] = [cost |-> INFINITY,
                                               next_hop |-> routing_table[d].next_hop]
                       /\ d \in DOMAIN hold_down_timers'
                       /\ \A t \in now .. now + HOLD_DOWN_INTERVAL :
                              HoldDownRunning(hold_down_timers', d, t)
                                  <=> t < now + HOLD_DOWN_INTERVAL
                  ELSE routing_table'[d] = routing_table[d]
           /\ DOMAIN hold_down_timers' = DOMAIN hold_down_timers \cup ThroughSilent
           /\ \A d \in DOMAIN hold_down_timers \ ThroughSilent :
                  hold_down_timers'[d] = hold_down_timers[d]
           /\ \A n \in NeighborIds :
                  last_seen'[n] = IF n \in Silent THEN 0 ELSE last_seen[n]
           /\ changed'.timeout <=> ThroughSilent # {}]_vars

\* a scan has poisoned a route through a silent neighbor and reset its
\* last_seen, while a route below INFINITY through the other neighbor, or a
\* route through the silent one with an older hold-down entry, is as before
C15_Witness ==
    /\ pc = "sync"
    /\ \E d \in poisoned :
           /\ routing_table[d].cost = INFINITY
           /\ hold_down_timers[d] = now
           /\ last_seen[routing_table[d].next_hop] = 0
           /\ \E e \in DOMAIN routing_table \ poisoned :
                  /\ routing_table[e].next_hop \in NeighborIds
                  /\ \/ /\ routing_table[e].next_hop # routing_table[d].next_hop
                         /\ routing_table[e].cost < INFINITY
                     \/ /\ routing_table[e].next_hop = routing_table[d].next_hop
                         /\ e \in DOMAIN hold_down_timers
                         /\ hold_down_timers[e] < now

\* an update of a configured neighbor is being processed
ProcessingUpdate ==
    pc = "recv" /\ msg'.kind = "update" /\ msg'.sender_id \in NeighborIds

\* C16: a hold-down entry for a destination is created when the destination is
\* poisoned, and it is removed no later than the first of: its deadline
\* (creation time + HOLD_DOWN_INTERVAL) passing, the next update of the
\* destination's former next hop being processed.
C16_HoldDownLifecycle ==
    [][/\ \A d \in poisoned' : d \in DOMAIN hold_down_timers'
       /\ pc' = "sleep" =>
              \A d \in DOMAIN hold_down_timers' :
                  HoldDownRunning(hold_down_timers', d, now')
       /\ ProcessingUpdate =>
              \A d \in DOMAIN hold_down_timers :
                  routing_table[d].next_hop = msg'.sender_id =>
                      d \notin DOMAIN hold_down_timers']_vars

\* C16, with the removal the code makes: the entry created by the timeout scan
\* that poisons the destination is removed by exactly the steps that process,
\* at or after the deadline, an update of a configured neighbor that advertises
\* the destination.
C16_HoldDownLazyEviction ==
    [][/\ \A d \in poisoned' :
              d \in DOMAIN hold_down_timers' /\ hold_down_timers'[d] = now'
       /\ \A d \in DOMAIN hold_down_timers :
              d \notin DOMAIN hold_down_timers' <=>
                  /\ ProcessingUpdate
                  /\ d \in DOMAIN msg'.table
                  /\ now >= hold_down_timers[d] + HOLD_DOWN_INTERVAL]_vars

\* an update has been processed after the deadline of two poisoned
\* destinations: the one it advertises, still at the INFINITY only a timeout
\* writes, has no entry any more, the one it does not advertise has its entry
C16_Witness ==
    /\ UpdateProcessed
    /\ \E d \in DOMAIN msg.table \cap DOMAIN routing_table :
           /\ routing_table[d].cost = INFINITY
           /\ d \in evictions
           /\ d \notin DOMAIN hold_down_timers
    /\ \E e \in DOMAIN hold_down_timers \ DOMAIN msg.table :
           now >= hold_down_timers[e] + HOLD_DOWN_INTERVAL

\* C17: for a destination poisoned by a timeout at time t, an update processed
\* at a time >= t + HOLD_DOWN_INTERVAL, of a configured neighbor S that
\* advertises it with a next hop other than this router and with
\* link_cost(S) + advertised cost < INFINITY, removes the hold-down entry and
\* leaves the route {link_cost(S) + advertised cost, S}.
C17_RelearnAfterHoldDown ==
    [][ProcessingUpdate =>
           \A d \in DOMAIN hold_down_timers \cap DOMAIN msg'.table :
               (/\ now >= hold_down_timers[d] + HOLD_DOWN_INTERVAL
                /\ msg'.table[d].next_hop # router_id
                /\ LinkCost(router_id, msg'.sender_id) + msg'.table[d].cost < INFINITY)
               => /\ d \notin DOMAIN hold_down_timers'
                  /\ routing_table'[d] =
                         [cost |-> LinkCost(router_id, msg'.sender_id) + msg'.table[d].cost,
                          next_hop |-> msg'.sender_id]]_vars

\* the update just processed removed the hold-down entry of a destination and
\* the destination is routed, below INFINITY, through the update's sender
C17_Witness ==
    /\ UpdateProcessed
    /\ \E d \in evictions \cap DOMAIN msg.table :
           /\ msg.table[d].next_hop # router_id
           /\ d \notin DOMAIN hold_down_timers
           /\ routing_table[d].cost < INFINITY
           /\ routing_table[d] =
                  [cost |-> LinkCost(router_id, msg.sender_id) + msg.table[d].cost,
                   next_hop |-> msg.sender_id]

\* C20: in every reachable state every destination with an entry in
\* hold_down_timers, expired or not, has a route in the routing table and that
\* route's cost is >= INFINITY; so a route is below INFINITY only in states
\* where its hold-down entry is gone, and the step that brings a held route
\* below INFINITY is a step that evicts its entry.
C20_HeldRoutesUnreachable ==
    \A d \in DOMAIN hold_down_timers :
        /\ d \in DOMAIN routing_table
        /\ routing_table[d].cost >= INFINITY

\* an update has just evicted the expired entry of one destination and
\* brought its route below INFINITY, while the expired entry of another
\* destination, which the update did not advertise, is still in the registry
C20_Witness ==
    /\ UpdateProcessed
    /\ \E d \in evictions : routing_table[d].cost < INFINITY
    /\ \E d \in DOMAIN hold_down_timers :
           /\ ~HoldDownRunning(hold_down_timers, d, now)
           /\ d \notin DOMAIN msg.table
           /\ routing_table[d].cost >= INFINITY

\* C21: in every reachable state every route to a destination other than the
\* router itself whose cost is below INFINITY has as next hop a configured
\* neighbor N with last_seen(N) > 0: no route below INFINITY goes through a
\* neighbor that was never heard from, or whose timeout has fired and that has
\* not been heard from since.
C21_FiniteRoutesThroughHeard ==
    \A d \in DOMAIN routing_table \ {router_id} :
        routing_table[d].cost < INFINITY =>
            /\ routing_table[d].next_hop \in NeighborIds
            /\ last_seen[routing_table[d].next_hop] > 0

\* the timeout of a neighbor has fired: its last_seen is back at 0 and the
\* route through it is at INFINITY under a hold-down, while a route below
\* INFINITY goes through another neighbor, which is heard
C21_Witness ==
    /\ \E n \in NeighborIds :
           /\ last_seen[n] = 0
           /\ \E d \in DOMAIN routing_table \cap DOMAIN hold_down_timers :
                  routing_table[d] = [cost |-> INFINITY, next_hop |-> n]
    /\ \E e \in DOMAIN routing_table \ {router_id} :
           /\ routing_table[e].cost < INFINITY
           /\ last_seen[routing_table[e].next_hop] > 0

-----------------------------------------------------------------------------
(* The single router under either identifier-to-prefix map                 *)

\* config["network_map"] that gives r2 and r4 the same prefix
SharedMap == [r1 |-> "10.0.1.0/24", r2 |-> "10.0.2.0/24", r3 |-> "10.0.3.0/24",
              r4 |-> "10.0.2.0/24"]

\* __init__, with one of the two maps
MapInit ==
    /\ routing_table = [d \in {router_id} |-> [cost |-> 0, next_hop |-> router_id]]
    /\ table_order = <<router_id>>
    /\ last_seen = [n \in NeighborIds |-> 0]
    /\ installed_routes = EmptyMap
    /\ hold_down_timers = EmptyMap
    /\ network_map \in {ConfigMap, SharedMap}
    /\ last_update_sent = 0
    /\ now = StartTime
    /\ pc = "start"
    /\ msg = NoMsg
    /\ changed = NoChange
    /\ sent = EmptyMap
    /\ intents = <<>>
    /\ poisoned = {}
    /\ evictions = {}
    /\ NoNetwork

MapSpec == MapInit /\ [][Next]_vars

\* the updates in which a neighbor advertises one destination, not this router,
\* at cost 0
QuietUpdates ==
    {u \in Updates :
        /\ u.sender_id \in NeighborIds
        /\ \E d \in Destinations \ {router_id} :
               /\ DOMAIN u.table = {d}
               /\ u.table[d].cost = 0
               /\ u.table[d].next_hop # router_id}

\* the loop of run() when every datagram is one of these updates
QuietNext ==
    \/ RunStart
    \/ SendRoutingUpdates
    \/ SkipSend
    \/ RecvNothing
    \/ \E payload \in QuietUpdates : RecvUpdate(payload)
    \/ TimeoutScan
    \/ Reconcile
    \/ \E step \in {0, ClockStep} : Sleep(step)

\* the loop keeps ticking and time keeps passing
QuietFairSpec ==
    /\ MapInit
    /\ [][QuietNext]_vars
    /\ WF_vars(QuietNext)
    /\ SF_vars(Sleep(ClockStep))

\* the clock values after which the clock goes on for more than TIMEOUT_INTERVAL
HeardTimes == {StartTime + k * ClockStep : k \in 0 .. MaxClockSteps - 2}

\* a neighbor last heard at time t is heard again later or is timed out
HeardOrTimedOut ==
    \A n \in NeighborIds : \A t \in HeardTimes :
        (last_seen[n] = t) ~> (last_seen[n] # t)

\* the routes whose next hop is a neighbor that has timed out and has not been
\* heard since
ThroughTimedOut ==
    {d \in DOMAIN routing_table :
        /\ routing_table[d].next_hop \in NeighborIds
        /\ last_seen[routing_table[d].next_hop] = 0}

\* C18: a neighbor N that was heard and sends nothing further is eventually
\* timed out; the timeout scan of the first tick that runs more than
\* TIMEOUT_INTERVAL after the last message of N leaves every route with next
\* hop N at a cost >= INFINITY, and at the end of that tick, as long as N stays
\* silent, no prefix of such a destination is in the shadow map.
C18_SilentNeighborPoisoned ==
    /\ HeardOrTimedOut
    /\ [][/\ pc = "timeouts" =>
                 \A d \in DOMAIN routing_table' :
                     routing_table'[d].next_hop \in Silent =>
                         routing_table'[d].cost >= INFINITY
          /\ pc' = "sleep" =>
                 \A d \in ThroughTimedOut' :
                     /\ routing_table'[d].cost >= INFINITY
                     /\ Get(network_map', d) \notin DOMAIN installed_routes']_vars

\* C18, for a prefix that network_map gives to several destinations: the
\* prefix of a destination routed through the silent neighbor is in the shadow
\* map only for a destination of the same prefix that is routed below INFINITY
\* through the neighbor whose address the shadow map holds.
C18_SilentNeighborPoisonedShared ==
    /\ HeardOrTimedOut
    /\ [][/\ pc = "timeouts" =>
                 \A d \in DOMAIN routing_table' :
                     routing_table'[d].next_hop \in Silent =>
                         routing_table'[d].cost >= INFINITY
          /\ pc' = "sleep" =>
                 \A d \in ThroughTimedOut' :
                     /\ routing_table'[d].cost >= INFINITY
                     /\ Get(network_map', d) \in DOMAIN installed_routes' =>
                            \E e \in DOMAIN routing_table' \ ThroughTimedOut' :
                                /\ Get(network_map', e) = Get(network_map', d)
                                /\ routing_table'[e].cost < INFINITY
                                /\ NeighborIp(router_id, routing_table'[e].next_hop)
                                       = installed_routes'[Get(network_map', d)]]_vars

\* a tick ends whose scan poisoned an installed route: its prefix has left the
\* shadow map by a remove intent, and the route of another destination through
\* the neighbor still heard is installed
C18_Witness ==
    /\ pc = "sleep"
    /\ changed.timeout
    /\ \E d \in poisoned :
           /\ d \in ThroughTimedOut
           /\ Get(network_map, d) \notin DOMAIN installed_routes
           /\ DeleteIntent(Get(network_map, d)) \in intents[Len(intents)]
           /\ \E e \in DOMAIN routing_table \ ThroughTimedOut :
                  /\ e # router_id
                  /\ routing_table[e].cost < INFINITY
                  /\ Get(network_map, e) \in DOMAIN installed_routes

-----------------------------------------------------------------------------
(* The network: every router runs run(); a datagram a router sends waits   *)
(* in the socket of the neighbor until the neighbor's loop receives it     *)

\* the length of one step of the clock of the network
NetClockStep == 11
\* the clock of the network stops after this many steps
MaxNetSteps == 9
\* the number of links that may fail
MaxLinkFailures == 1

\* the link between two routers
Link(a, b) == {a, b}

AllLinks == UNION {{Link(a, b) : b \in Neighbors(a)} : a \in Routers}

\* the links among the routers of S
LinksOf(S) == {l \in AllLinks : l \subseteq S}

\* the links that may fail
FailableLinks == {Link("r2", "r4")}

\* the routers that may start after the others
LateStarters == {"r1"}

\* __init__: the object of router `self`
NewRouter(self) ==
    [routing_table    |-> [d \in {self} |-> [cost |-> 0, next_hop |-> self]],
     table_order      |-> <<self>>,
     last_seen        |-> [n \in Neighbors(self) |-> 0],
     installed_routes |-> EmptyMap,
     hold_down_timers |-> EmptyMap,
     last_update_sent |-> 0]

\* the datagram send_routing_updates of `self` builds for neighbor n
UpdateFor(self, rt, n) ==
    [kind |-> "update", sender_id |-> self, table |-> TableForNeighbor(self, rt, n)]

\* sendto: the datagram reaches the socket of a running neighbor over a link
\* that carries datagrams, and is lost otherwise
SendTo(self, rt, q) ==
    [n \in DOMAIN q |->
        IF n \in Neighbors(self) /\ n \in started /\ Link(self, n) \in links
        THEN Append(q[n], UpdateFor(self, rt, n))
        ELSE q[n]]

\* lines 364-385: one iteration of the loop of run() at router `self`
LoopIteration(self, r, q, t) ==
    LET due  == UpdateDue(t, r.last_update_sent)
        q1   == IF due THEN SendTo(self, r.routing_table, q) ELSE q
        has  == q1[self] # <<>>
        recv == IF has
                THEN ProcessUpdate(self, r.routing_table, r.table_order, r.hold_down_timers,
                                   r.last_seen, Head(q1[self]), t)
                ELSE [rt |-> r.routing_table, order |-> r.table_order,
                      hold |-> r.hold_down_timers, changed |-> FALSE,
                      last_seen |-> r.last_seen]
        tmo  == CheckNeighborTimeouts(self, recv.rt, recv.hold, recv.last_seen, t)
        sync == IF recv.changed \/ tmo.changed
                THEN SyncOsRoutes(self, tmo.rt, recv.order, r.installed_routes,
                                  ConfigMap).installed
                ELSE r.installed_routes
    IN  [router |-> [routing_table    |-> tmo.rt,
                     table_order      |-> recv.order,
                     last_seen        |-> tmo.last_seen,
                     installed_routes |-> sync,
                     hold_down_timers |-> tmo.hold,
                     last_update_sent |-> IF due THEN t ELSE r.last_update_sent],
         queues |-> [q1 EXCEPT ![self] = IF has THEN Tail(@) ELSE @]]

\* the routers of S, those of `late` not yet started
NetInitOf(S, late) ==
    /\ routing_table = [d \in {router_id} |-> [cost |-> 0, next_hop |-> router_id]]
    /\ table_order = <<router_id>>
    /\ last_seen = [n \in NeighborIds |-> 0]
    /\ installed_routes = EmptyMap
    /\ hold_down_timers = EmptyMap
    /\ network_map = ConfigMap
    /\ last_update_sent = 0
    /\ now = StartTime
    /\ pc = "net"
    /\ msg = NoMsg
    /\ changed = NoChange
    /\ sent = EmptyMap
    /\ intents = <<>>
    /\ poisoned = {}
    /\ evictions = {}
    /\ routers = [r \in S |-> NewRouter(r)]
    /\ queues = [r \in S |-> <<>>]
    /\ started = S \ late
    /\ links = LinksOf(S)

NetInit == NetInitOf(Ring, LateStarters)

\* a router is started: __init__, and run() up to the loop (the reconciliation
\* of lines 359-360 finds the self-route only and installs nothing)
NetStart(self) ==
    /\ self \notin started
    /\ started' = started \cup {self}
    /\ UNCHANGED <<routers, queues, links, now, single>>

\* one iteration of the loop of a running router
NetLoop(self) ==
    /\ self \in started
    /\ LET it == LoopIteration(self, routers[self], queues, now)
       IN  /\ routers' = [routers EXCEPT ![self] = it.router]
           /\ queues' = it.queues
    /\ UNCHANGED <<started, links, now, single>>

\* a link stops carrying datagrams
NetLinkFail(l) ==
    /\ l \in links
    /\ Cardinality(LinksOf(DOMAIN routers) \ links) < MaxLinkFailures
    /\ links' = links \ {l}
    /\ UNCHANGED <<routers, queues, started, now, single>>

\* every running router has sent the update that is due and has emptied its
\* socket: the routers sleep (line 388) and the clock moves on
NetIdle ==
    \A r \in started : queues[r] = <<>> /\ ~UpdateDue(now, routers[r].last_update_sent)

NetSleep ==
    /\ NetIdle
    /\ now + NetClockStep <= StartTime + MaxNetSteps * NetClockStep
    /\ now' = now + NetClockStep
    /\ UNCHANGED <<netvars, single>>

NetNext ==
    \/ \E r \in LateStarters : NetStart(r)
    \/ \E r \in Ring : NetLoop(r)
    \/ \E l \in FailableLinks : NetLinkFail(l)
    \/ NetSleep

NetSpec == NetInit /\ [][NetNext]_vars

-----------------------------------------------------------------------------
(* Least-cost paths under the composite link costs                         *)

\* a cost no path has
NoPath == INFINITY * Cardinality(Routers)

Min(S) == CHOOSE x \in S : \A y \in S : x <= y

\* the neighbors a router exchanges datagrams with
UpNeighbors(self) == {n \in Neighbors(self) : Link(self, n) \in links}

\* the least cost of a path of at most k links, for every pair of routers
RECURSIVE LeastCostWithin(_)
LeastCostWithin(k) ==
    IF k = 0
    THEN [r \in Routers |-> [d \in Routers |-> IF r = d THEN 0 ELSE NoPath]]
    ELSE LET prev == LeastCostWithin(k - 1)
         IN  [r \in Routers |-> [d \in Routers |->
                Min({prev[r][d]} \cup
                    {LinkCost(r, n) + prev[n][d] : n \in UpNeighbors(r)})]]

LeastCost == LeastCostWithin(Cardinality(Routers) - 1)

\* the route of router r to d is a least-cost one
OnLeastCostPath(r, d, route, least) ==
    /\ route.cost = least[r][d]
    /\ IF r = d
       THEN route.next_hop = r
       ELSE /\ route.next_hop \in UpNeighbors(r)
            /\ LinkCost(r, route.next_hop) + least[route.next_hop][d] = least[r][d]

\* with the links as they are and no datagram lost, no routing table changes
\* any more: every router runs, no datagram waits, no hold-down entry is
\* left, every neighbor behind a working link has just been heard and no other
\* is awaited, and the update each router builds for each neighbor leaves the
\* neighbor's table as it is
NetStable ==
    /\ started = DOMAIN routers
    /\ NetIdle
    /\ \A r \in DOMAIN routers :
        LET o == routers[r]
        IN  /\ DOMAIN o.hold_down_timers = {}
            /\ \A n \in Neighbors(r) :
                IF n \in UpNeighbors(r)
                THEN /\ o.last_seen[n] = now
                     /\ ProcessUpdate(r, o.routing_table, o.table_order,
                                      o.hold_down_timers, o.last_seen,
                                      UpdateFor(n, routers[n].routing_table, r), now).rt
                            = o.routing_table
                ELSE o.last_seen[n] = 0

\* C4: in a system of several routers exchanging advertisements over queued
\* datagram channels, once the topology is static and no datagram is lost the
\* routing tables stop changing, and in the stable state the cost and the next
\* hop of every router for every reachable destination are those of a
\* least-cost path under the composite link costs.
C4_Convergence ==
    NetStable =>
        LET least == LeastCost
        IN  \A r \in DOMAIN routers : \A d \in DOMAIN routers :
                least[r][d] < INFINITY =>
                    /\ d \in DOMAIN routers[r].routing_table
                    /\ OnLeastCostPath(r, d, routers[r].routing_table[d], least)

\* C19: there is no reachable state in which two neighboring routers A and B
\* both hold a route below INFINITY to the same destination D, other than A
\* and B, A's with next hop B and B's with next hop A.
C19_NoTwoNodeLoop ==
    \A a \in DOMAIN routers : \A b \in Neighbors(a) \cap DOMAIN routers :
        \A d \in DOMAIN routers[a].routing_table \cap DOMAIN routers[b].routing_table :
            ~(/\ d \notin {a, b}
              /\ routers[a].routing_table[d].next_hop = b
              /\ routers[b].routing_table[d].next_hop = a
              /\ routers[a].routing_table[d].cost < INFINITY
              /\ routers[b].routing_table[d].cost < INFINITY)

-----------------------------------------------------------------------------
(* Two routers that are each other's only neighbor                         *)

\* the router of the pair that may start after the other
PairLateStarters == {"a2"}

PairInit == NetInitOf(Pair, PairLateStarters)

PairNext ==
    \/ \E r \in PairLateStarters : NetStart(r)
    \/ \E r \in Pair : NetLoop(r)
    \/ \E l \in LinksOf(Pair) : NetLinkFail(l)
    \/ NetSleep

PairSpec == PairInit /\ [][PairNext]_vars

\* each router of the pair has processed an advertisement of the other and has
\* not timed it out since
PairHeard == \A r \in Pair : \A o \in Pair \ {r} : routers[r].last_seen[o] > 0

\* every router of the pair holds the route to the other through the other, at
\* the given cost
PairRoutes(cost) ==
    \A r \in Pair : \A o \in Pair \ {r} :
        /\ o \in DOMAIN routers[r].routing_table
        /\ routers[r].routing_table[o] = [cost |-> cost, next_hop |-> o]

\* C11: two routers configured as each other's only neighbor with latency_ms = 10
\* and bandwidth_mbps = 100 hold, once each has processed one advertisement of
\* the other, the route to the other with cost 21.0 and the other as next hop.
C11_TwoNodeLearn == PairHeard => PairRoutes(21 * HalfUnits)

\* C11, with the cost the configuration gives: 10 + 1000/100 + 0.5 * 1 = 20.5,
\* which is 41 halves.
C11_TwoNodeLearnHalf == PairHeard => PairRoutes(41)

\* both routers have processed an advertisement of the other and route to it
C11_Witness ==
    /\ DOMAIN routers = Pair
    /\ PairHeard
    /\ \A r \in Pair : \A o \in Pair \ {r} :
           /\ o \in DOMAIN routers[r].routing_table
           /\ routers[r].routing_table[o].next_hop = o
           /\ routers[r].routing_table[o].cost < INFINITY

====
